---- MODULE Spec2Model ----
(***************************************************************************)
(* Model of ara_webscraping.py: webscraping_ara (the region loop, the      *)
(* network-log scan, the payload decoding and the final concatenation)     *)
(* and the record normalizer _get_product_info with its helper             *)
(* _get_first_element.                                                     *)
(*                                                                         *)
(* Python values are tagged records: None, str (a sequence of one-char     *)
(* strings), int, list, tuple, dict (a function from keys to values) and   *)
(* the NaN pandas puts in a missing cell.  Dicts whose keys are only used  *)
(* as keys are functions over TLA+ strings; the "meta" dict, whose keys    *)
(* are also indexed as strings (key[0]), is a function over character      *)
(* sequences.                                                              *)
(***************************************************************************)
EXTENDS Integers, Sequences, FiniteSets, TLC

----------------------------------------------------------------------------
(* Bounds of the model *)

MaxRegions == 2

MaxEvents == 1

MaxMetaKeys == 1

----------------------------------------------------------------------------
(* Python values *)

PyNone == [t |-> "None"]

NaN == [t |-> "NaN"]

S(chars) == [t |-> "str", s |-> chars]

N(n) == [t |-> "int", n |-> n]

L(items) == [t |-> "list", items |-> items]

Tup(items) == [t |-> "tuple", items |-> items]

D(map) == [t |-> "dict", d |-> map]

EmptyDict == [k \in {} |-> PyNone]

\* dict.get(key): the value, or None when the key is absent
Get(map, key) == IF key \in DOMAIN map THEN map[key] ELSE PyNone

\* truth value of a Python object (if x: / if not x:)
Truthy(v) ==
    CASE v.t = "None" -> FALSE
      [] v.t = "str" -> v.s # <<>>
      [] v.t = "int" -> v.n # 0
      [] v.t = "list" -> v.items # <<>>
      [] v.t = "tuple" -> v.items # <<>>
      [] v.t = "dict" -> DOMAIN v.d # {}
      [] OTHER -> TRUE

----------------------------------------------------------------------------
(* Strings as sequences of characters *)

Digits == <<"0", "1", "2", "3", "4", "5", "6", "7", "8", "9">>

RECURSIVE IntChars(_)
\* decimal digits of a natural number
IntChars(n) == IF n < 10 THEN <<Digits[n + 1]>>
               ELSE IntChars(n \div 10) \o <<Digits[(n % 10) + 1]>>

NoneChars == <<"N", "o", "n", "e">>

\* str(v) and the {v} of an f-string, for the values that reach them
Str(v) ==
    CASE v.t = "str" -> v.s
      [] v.t = "int" -> IntChars(v.n)
      [] v.t = "None" -> NoneChars
      [] OTHER -> <<"?">>

\* s[i:i+len(sub)] == sub, i counted from 1
MatchesAt(s, sub, i) ==
    /\ i + Len(sub) - 1 <= Len(s)
    /\ \A j \in 1..Len(sub) : s[i + j - 1] = sub[j]

\* str.find(sub) != -1
Contains(s, sub) == \E i \in 1..(Len(s) + 1) : MatchesAt(s, sub, i)

RECURSIVE ReplaceFrom(_, _, _, _)
\* str.replace from position i on: non-overlapping occurrences, left to right
ReplaceFrom(s, old, new, i) ==
    IF i > Len(s) THEN <<>>
    ELSE IF MatchesAt(s, old, i)
         THEN new \o ReplaceFrom(s, old, new, i + Len(old))
         ELSE <<s[i]>> \o ReplaceFrom(s, old, new, i + 1)

\* str.replace(old, new) for a non-empty old
Replace(s, old, new) == ReplaceFrom(s, old, new, 1)

----------------------------------------------------------------------------
(* String literals of the program *)

BaseUrl == <<"h", "t", "t", "p", "s", ":", "/", "/", "a", "r", "a", "t", "i",
             "e", "n", "d", "a", "s", ".", "c", "o", "m", "/">>

Slash == <<"/">>

Percent == <<"%">>

Rebajon == <<"r", "e", "b", "a", "j", "o", "n", "/">>

Admin == <<"a", "d", "m", "i", "n">>

k_comunicacion == <<"c", "o", "m", "u", "n", "i", "c", "a", "c", "i", "o", "n">>

k_descripcion == <<"d", "e", "s", "c", "r", "i", "p", "c", "i", "o", "n">>

k_precio_promocion_ == <<"p", "r", "e", "c", "i", "o", "_", "p", "r", "o", "m",
                         "o", "c", "i", "o", "n", "_">>

k_precio_referente == <<"p", "r", "e", "c", "i", "o", "_", "r", "e", "f", "e",
                        "r", "e", "n", "t", "e">>

k_tipo_de_precio_referente == <<"t", "i", "p", "o", "_", "d", "e", "_">>
                              \o k_precio_referente

k_marca == <<"m", "a", "r", "c", "a">>

k_producto_destacado == <<"p", "r", "o", "d", "u", "c", "t", "o", "_", "d", "e",
                          "s", "t", "a", "c", "a", "d", "o">>

k_sap_ean == <<"s", "a", "p", "-", "e", "a", "n">>

k_region == <<"r", "e", "g", "i", "o", "n">>

k_unidad_de_medida == <<"u", "n", "i", "d", "a", "d", "_", "d", "e", "_", "m",
                        "e", "d", "i", "d", "a">>

\* normalized field name -> the meta key it is read from (lines 158-178)
MetaKeyOf ==
    [comunicacion_type |-> k_comunicacion,
     product_description |-> k_descripcion,
     sale_price |-> k_precio_promocion_,
     price |-> k_precio_referente,
     price_type |-> k_tipo_de_precio_referente,
     brand |-> k_marca,
     outstanding |-> k_producto_destacado,
     sap_ean_code |-> k_sap_ean,
     region |-> k_region,
     measure |-> k_unidad_de_medida]

MetaFieldNames == DOMAIN MetaKeyOf

----------------------------------------------------------------------------
(* _get_first_element and _get_product_info *)

\* _get_first_element(origin_dict_, key)
_get_first_element(origin_dict_, key) ==
    LET found_key == Get(origin_dict_, key)
    IN  IF found_key.t = "list" THEN S(<<key[1]>>) ELSE S(<<>>)

\* meta-derived entries that default to "" when the record has no meta
MetaFieldsDefaulted(meta) ==
    [f \in MetaFieldNames |->
        IF Truthy(meta) THEN _get_first_element(meta.d, MetaKeyOf[f]) ELSE S(<<>>)]

\* the block guarded by "if meta:": the ten meta-derived entries, or none
MetaFields(meta) ==
    IF Truthy(meta)
    THEN [f \in MetaFieldNames |-> _get_first_element(meta.d, MetaKeyOf[f])]
    ELSE EmptyDict

\* the entries copied by key lookup from the raw record
DirectFields(product_info) ==
    [id |-> Get(product_info, "ID"),
     image_url |-> Get(product_info, "image"),
     post_type |-> Get(product_info, "post_type"),
     post_date |-> Get(product_info, "post_date"),
     post_modified |-> Get(product_info, "post_modified"),
     post_status |-> Get(product_info, "post_status"),
     post_name |-> Get(product_info, "post_name"),
     product_name |-> Get(product_info, "post_name"),
     post_title |-> Get(product_info, "post_title")]

\* f"https://aratiendas.com/{product_type}/{product_name}/"
ProductUrl(product_type, product_name) ==
    BaseUrl \o Str(product_type) \o Slash \o Str(product_name) \o Slash

\* the category expression; resolved is requests.get(product_url).url
Category(resolved, product_type, product_name) ==
    LET product_request == Replace(resolved, Percent, <<>>)
        no_base == Replace(product_request, BaseUrl, <<>>)
        no_type == Replace(no_base, Str(product_type) \o Slash, <<>>)
        no_name == Replace(no_type, Slash \o Str(product_name) \o Slash, <<>>)
    IN  Tup(<<S(no_name)>>)

\* _get_product_info(product_info), given the URL the HTTP lookup resolves to
_get_product_info(product_info, resolved) ==
    LET direct == DirectFields(product_info)
        product_name == direct["product_name"]
        product_type == direct["post_type"]
    IN  direct
        @@ MetaFields(Get(product_info, "meta"))
        @@ [product_url |-> S(ProductUrl(product_type, product_name)),
            category |-> Category(resolved, product_type, product_name)]

----------------------------------------------------------------------------
(* Inputs of the normalizer *)

LecheEntera == <<"l", "e", "c", "h", "e", "-", "e", "n", "t", "e", "r", "a">>

Cafe == <<"c", "a", "f", "e">>

Producto == <<"p", "r", "o", "d", "u", "c", "t", "o">>

Lacteos == <<"l", "a", "c", "t", "e", "o", "s">>

AcmeCo == <<"A", "c", "m", "e", "C", "o">>

k_other == <<"_", "e", "d", "i", "t">>

\* values a meta key can hold in the catalog JSON
MetaValues == {L(<<S(AcmeCo)>>), L(<<N(1200), S(Cafe)>>), L(<<>>), S(AcmeCo)}

MetaKeys == {MetaKeyOf[f] : f \in MetaFieldNames} \cup {k_other}

\* the meta maps holding at most MaxMetaKeys keys
MetaMaps ==
    UNION {[ks -> MetaValues] : ks \in {k \in SUBSET MetaKeys : Cardinality(k) <= MaxMetaKeys}}

\* the raw records: every combination of absent and present entries
RawProducts ==
    LET Opt(key, vals) == {EmptyDict} \cup {(key :> v) : v \in vals}
    IN  {a @@ b @@ c @@ d :
            a \in Opt("ID", {N(4711)}),
            b \in Opt("post_type", {S(Producto)}),
            c \in Opt("post_name", {S(LecheEntera), S(Cafe)}),
            d \in Opt("meta", {PyNone} \cup {D(m) : m \in MetaMaps})}

\* the URLs the site can answer a product URL with: itself, a redirect that
\* appends or inserts the category, and one with percent-encoded characters
ResolvedUrls(product_type, product_name) ==
    LET t == Str(product_type)
        n == Str(product_name)
    IN  {ProductUrl(product_type, product_name),
         BaseUrl \o t \o Slash \o n \o Slash \o Lacteos \o Slash,
         BaseUrl \o t \o Slash \o Lacteos \o Slash \o n \o Slash,
         BaseUrl \o t \o Slash \o <<"%", "C", "3">> \o Slash \o n \o Slash}

----------------------------------------------------------------------------
(* Dates *)

\* zero-padded decimal of n on width characters (%m, %d, %H, %M, %S, %Y)
Pad(n, width) ==
    LET d == IntChars(n)
    IN  [i \in 1..(width - Len(d)) |-> "0"] \o d

\* now.strftime("%Y%m%d")
StrftimeDate(dt) == Pad(dt.year, 4) \o Pad(dt.month, 2) \o Pad(dt.day, 2)

\* now.strftime("%H:%M:%S")
StrftimeTime(dt) ==
    Pad(dt.hour, 2) \o <<":">> \o Pad(dt.minute, 2) \o <<":">> \o Pad(dt.second, 2)

DateTime(y, mo, d, h, mi, sec) ==
    [t |-> "datetime", year |-> y, month |-> mo, day |-> d,
     hour |-> h, minute |-> mi, second |-> sec]

\* the instants datetime.now() can return in a run of the model
Instants == {DateTime(2023, 1, 5, 9, 3, 7), DateTime(2024, 12, 31, 23, 59, 58)}

----------------------------------------------------------------------------
(* Regions and the browser's performance log *)

Norte == <<"n", "o", "r", "t", "e">>

\* REGIONS; the model runs on lists over its first two entries
REGIONS == <<PyNone, S(Norte), S(<<"s", "u", "r">>),
             S(<<"o", "r", "i", "e", "n", "t", "e">>),
             S(<<"o", "c", "c", "i", "d", "e", "n", "t", "e">>),
             S(<<"c", "e", "n", "t", "r", "o">>)>>

RegionChoices == {REGIONS[1], REGIONS[2]}

SeqsUpTo(set, n) == UNION {[1..k -> set] : k \in 0..n}

\* url of the page loaded for a region
RegionUrl(region) ==
    IF region = PyNone
    THEN BaseUrl \o Rebajon
    ELSE BaseUrl \o Rebajon \o Str(region) \o Slash

\* a decoded log event: its method and its params (requestId and url, when
\* the event has them)
Event(method, params) == [method |-> method, params |-> params]

EvAdmin ==
    Event(<<"r", "e", "s", "p">>,
          ("requestId" :> S(<<"7">>))
          @@ ("url" :> S(<<"/", "w", "p", "-">> \o Admin \o <<"/", "a", "j", "a", "x">>)))

EvOther ==
    Event(<<"r", "e", "s", "p">>,
          ("requestId" :> S(<<"3">>)) @@ ("url" :> S(<<"/">> \o Rebajon)))

EvPage == Event(<<"l", "o", "a", "d">>, EmptyDict)

EventSet == {EvAdmin, EvOther, EvPage}

\* the performance logs a page load can produce
EventLogs == SeqsUpTo(EventSet, MaxEvents)

\* str(event): the text of the dict; the key names, which never hold
\* "admin", are left out
StrEvent(event) ==
    <<"{">> \o event.method \o <<",">>
    \o Str(Get(event.params, "requestId")) \o <<",">>
    \o Str(Get(event.params, "url")) \o <<"}">>

\* str(event).find("admin") != -1
IsAdminEvent(event) == Contains(StrEvent(event), Admin)

\* IsAdminEvent, tabulated over the events of the model
IsAdminEventOf == [e \in EventSet |-> IsAdminEvent(e)]

Unbound == [t |-> "Unbound"]

\* the scan loop of lines 54-57: first_event after it, as a 0-based index;
\* the variable keeps the value it had when no event matches
ScanEvents(log, prev_first_event) ==
    LET hits == {i \in 1..Len(log) : IsAdminEventOf[log[i]]}
    IN  IF hits = {} THEN prev_first_event
        ELSE N((CHOOSE i \in hits : \A j \in hits : i <= j) - 1)

----------------------------------------------------------------------------
(* Response bodies *)

\* a str holding the JSON text of obj is represented by obj
JsonText(obj) == [t |-> "json", obj |-> obj]

\* the catalog products of the run model: one with a meta map, one without
Leche ==
    ("ID" :> N(1)) @@ ("post_type" :> S(Producto)) @@ ("post_name" :> S(LecheEntera))
    @@ ("meta" :> D((k_marca :> L(<<S(AcmeCo)>>))))

CafeMolido ==
    ("ID" :> N(2)) @@ ("post_type" :> S(Producto)) @@ ("post_name" :> S(Cafe))

CatalogProducts == {Leche, CafeMolido}

\* the "data" lists of a catalog: every product at most once, in any order
Payloads ==
    {ps \in SeqsUpTo(CatalogProducts, Cardinality(CatalogProducts)) :
        \A i, j \in DOMAIN ps : ps[i] = ps[j] => i = j}

\* the bodies Network.getResponseBody can answer with: no body, an empty one,
\* a page that is not JSON, a JSON object without "data", a catalog
Bodies ==
    {PyNone, S(<<>>), S(<<"<", "h", "t", "m", "l", ">">>),
     JsonText(("status" :> S(<<"o", "k">>)))}
    \cup {JsonText(("data" :> L(ps))) : ps \in Payloads}

\* json.loads(text)
json_loads(text) ==
    IF text.t = "json" THEN [ok |-> TRUE, value |-> text.obj]
    ELSE [ok |-> FALSE, value |-> PyNone]

\* a skip test that only catches an absent body
SkipsRegionNoneOnly(products_body) == products_body = PyNone

\* "if not products: continue"
SkipsRegion(products_body) == ~Truthy(products_body)

\* a lookup that falls back to an empty list
ListProductsDefault(json_products) ==
    IF "data" \in DOMAIN json_products THEN json_products["data"] ELSE L(<<>>)

\* list_products = json_products.get("data")
ListProducts(json_products) == Get(json_products, "data")

\* the redirect the site answers a product URL with: the category is put
\* between the type and the name
SiteRedirect(product_info) ==
    LET t == Str(Get(product_info, "post_type"))
        n == Str(Get(product_info, "post_name"))
    IN  BaseUrl \o t \o Slash \o Lacteos \o Slash \o n \o Slash

----------------------------------------------------------------------------
(* Tables *)

Range(f) == {f[i] : i \in DOMAIN f}

DataFrameOf(columns, index, rows) ==
    [t |-> "DataFrame", columns |-> columns, index |-> index, rows |-> rows]

\* a row on a wider set of columns: the missing cells are NaN
Reindex(row, columns) ==
    [c \in columns |-> IF c \in DOMAIN row THEN row[c] ELSE NaN]

\* pd.DataFrame(list of dicts)
pd_DataFrame(records) ==
    LET columns == UNION {DOMAIN records[i] : i \in DOMAIN records}
    IN  DataFrameOf(columns,
                    [i \in 1..Len(records) |-> i - 1],
                    [i \in 1..Len(records) |-> Reindex(records[i], columns)])

RECURSIVE ConcatIndex(_)
ConcatIndex(frames) ==
    IF frames = <<>> THEN <<>> ELSE Head(frames).index \o ConcatIndex(Tail(frames))

RECURSIVE ConcatRows(_, _)
ConcatRows(frames, columns) ==
    IF frames = <<>> THEN <<>>
    ELSE [i \in 1..Len(Head(frames).rows) |-> Reindex(Head(frames).rows[i], columns)]
         \o ConcatRows(Tail(frames), columns)

\* a concatenation that answers an empty list with an empty table
pd_concat_empty(frames) ==
    LET columns == UNION {frames[i].columns : i \in DOMAIN frames}
    IN  [ok |-> TRUE,
         value |-> DataFrameOf(columns, ConcatIndex(frames),
                               ConcatRows(frames, columns))]

\* a concatenation that keeps one row per product id, the first
pd_concat_unique(frames) ==
    IF frames = <<>> THEN [ok |-> FALSE, value |-> PyNone]
    ELSE LET columns == UNION {frames[i].columns : i \in DOMAIN frames}
             rows == ConcatRows(frames, columns)
             index == ConcatIndex(frames)
             keep == {i \in 1..Len(rows) :
                        \A j \in 1..(i - 1) : rows[j]["id"] # rows[i]["id"]}
             Pick(seq) == LET F[i \in 0..Len(seq)] ==
                                IF i = 0 THEN <<>>
                                ELSE IF i \in keep THEN Append(F[i - 1], seq[i])
                                     ELSE F[i - 1]
                          IN  F[Len(seq)]
         IN  [ok |-> TRUE, value |-> DataFrameOf(columns, Pick(index), Pick(rows))]

\* pd.concat(frames): ok is FALSE when it raises ValueError (nothing to
\* concatenate)
pd_concat(frames) ==
    IF frames = <<>> THEN [ok |-> FALSE, value |-> PyNone]
    ELSE LET columns == UNION {frames[i].columns : i \in DOMAIN frames}
         IN  [ok |-> TRUE,
              value |-> DataFrameOf(columns, ConcatIndex(frames),
                                    ConcatRows(frames, columns))]

\* frame.reset_index(drop=True)
reset_index(frame) ==
    DataFrameOf(frame.columns, [i \in 1..Len(frame.rows) |-> i - 1], frame.rows)

\* tagging that marks every record as national
ExtractionFieldsNational(region, dt) ==
    [extracted_region |-> PyNone,
     extracted_datetime |-> dt,
     extracted_date |-> S(StrftimeDate(dt)),
     extracted_time |-> S(StrftimeTime(dt))]

\* the four entries added to every record in the product loop
ExtractionFields(region, dt) ==
    [extracted_region |-> region,
     extracted_datetime |-> dt,
     extracted_date |-> S(StrftimeDate(dt)),
     extracted_time |-> S(StrftimeTime(dt))]

\* _get_product_info with the site's answer, tabulated over the catalog
ProductInfoOf ==
    [p \in CatalogProducts |-> _get_product_info(p, SiteRedirect(p))]

\* list_products_info after the product loop
ProductsInfo(list_products, region, dt) ==
    [i \in 1..Len(list_products) |->
        ExtractionFields(region, dt) @@ ProductInfoOf[list_products[i]]]

----------------------------------------------------------------------------
(* State *)

VARIABLES
    regions,          \* argument of webscraping_ara
    now,              \* datetime.now() taken at line 36
    pc,               \* "for", "body", "concat", "returned", "raised", "idle"
    region_idx,       \* position in regions of the loop variable region
    events,           \* decoded log of the current iteration
    first_event,      \* 0-based index set by the scan, Unbound before
    cdp_requestId,    \* requestId of the Network.getResponseBody command
    products,         \* body fetched in the current iteration
    products_dataframe_list,
    fetched,          \* history: the body fetched for regions[k], for every
                      \* region whose command was answered
    returned,         \* the table returned to the caller
    raised,           \* name of the exception that ended the run, "" if none
    product_info,     \* argument of the current _get_product_info call
    product_request,  \* URL its HTTP lookup resolves to
    product_scraped   \* its return value, NotCalled before the call returns

NotCalled == [t |-> "NotCalled"]

NotSent == [t |-> "NotSent"]

NoValue == [t |-> "NoValue"]

run_vars == <<regions, now, pc, region_idx, events, first_event, cdp_requestId,
              products, products_dataframe_list, fetched, returned, raised>>

info_vars == <<product_info, product_request, product_scraped>>

vars == <<run_vars, info_vars>>

----------------------------------------------------------------------------
(* webscraping_ara *)

InitInfoIdle ==
    /\ product_info = EmptyDict
    /\ product_request = <<>>
    /\ product_scraped = NotCalled

Init ==
    /\ regions \in SeqsUpTo(RegionChoices, MaxRegions)
    /\ now \in Instants
    /\ pc = "for"
    /\ region_idx = 0
    /\ events = Unbound
    /\ first_event = Unbound
    /\ cdp_requestId = NotSent
    /\ products = Unbound
    /\ products_dataframe_list = <<>>
    /\ fetched = <<>>
    /\ returned = NoValue
    /\ raised = ""
    /\ InitInfoIdle

Raise(name) ==
    /\ pc' = "raised"
    /\ raised' = name
    /\ UNCHANGED products_dataframe_list

\* line 42: bind the next region, or leave the loop.  events, products and
\* the request are rebound in the iteration before anything reads them, so
\* the values of the iteration before are dropped here; first_event is not.
ForRegion ==
    /\ pc = "for"
    /\ IF region_idx < Len(regions)
       THEN /\ region_idx' = region_idx + 1
            /\ pc' = "body"
            /\ events' = Unbound
            /\ cdp_requestId' = NotSent
            /\ products' = Unbound
       ELSE /\ pc' = "concat"
            /\ UNCHANGED <<region_idx, events, cdp_requestId, products>>
    /\ UNCHANGED <<regions, now, first_event, products_dataframe_list,
                   fetched, returned, raised, info_vars>>

\* lines 43-87: one iteration of the region loop.  log is what the browser
\* logged for the page, body what it answers the command with, http_ok
\* whether the product lookups succeed
RegionBody ==
    /\ pc = "body"
    /\ \E log \in EventLogs :
         LET region == regions[region_idx]
             first == ScanEvents(log, first_event)
         IN
         /\ events' = L(log)
         /\ first_event' = first
         /\ IF first = Unbound
            THEN /\ Raise("UnboundLocalError")
                 /\ UNCHANGED <<cdp_requestId, products, fetched>>
            ELSE IF first.n >= Len(log)
            THEN /\ Raise("IndexError")
                 /\ UNCHANGED <<cdp_requestId, products, fetched>>
            ELSE IF "requestId" \notin DOMAIN log[first.n + 1].params
            THEN /\ Raise("KeyError")
                 /\ UNCHANGED <<cdp_requestId, products, fetched>>
            ELSE \E body \in Bodies :
              /\ cdp_requestId' = log[first.n + 1].params["requestId"]
              /\ products' = body
              /\ fetched' = Append(fetched, body)
              /\ IF SkipsRegion(body)
                 THEN /\ pc' = "for"
                      /\ UNCHANGED <<products_dataframe_list, raised>>
                 ELSE IF ~json_loads(body).ok
                 THEN Raise("JSONDecodeError")
                 ELSE LET list_products == ListProducts(json_loads(body).value)
                      IN  IF list_products.t # "list"
                          THEN Raise("TypeError")
                          ELSE \E http_ok \in
                                 (IF list_products.items = <<>> THEN {TRUE} ELSE BOOLEAN) :
                                 IF http_ok
                                 THEN /\ products_dataframe_list' =
                                           Append(products_dataframe_list,
                                                  pd_DataFrame(ProductsInfo(
                                                      list_products.items, region, now)))
                                      /\ pc' = "for"
                                      /\ UNCHANGED raised
                                 ELSE Raise("ConnectionError")
    /\ UNCHANGED <<regions, now, region_idx, returned, info_vars>>

\* lines 90-92: concatenate, reset the index, return
ConcatAll ==
    /\ pc = "concat"
    /\ LET c == pd_concat(products_dataframe_list)
       IN  IF c.ok
           THEN /\ returned' = reset_index(c.value)
                /\ pc' = "returned"
                /\ UNCHANGED raised
           ELSE /\ pc' = "raised"
                /\ raised' = "ValueError"
                /\ UNCHANGED returned
    /\ UNCHANGED <<regions, now, region_idx, events, first_event, cdp_requestId,
                   products, products_dataframe_list, fetched, info_vars>>

Next == ForRegion \/ RegionBody \/ ConcatAll

Spec == Init /\ [][Next]_vars

----------------------------------------------------------------------------
(* The normalizer on its own *)

InitRunIdle ==
    /\ regions = <<>>
    /\ now \in {DateTime(2023, 1, 5, 9, 3, 7)}
    /\ pc = "idle"
    /\ region_idx = 0
    /\ events = Unbound
    /\ first_event = Unbound
    /\ cdp_requestId = NotSent
    /\ products = Unbound
    /\ products_dataframe_list = <<>>
    /\ fetched = <<>>
    /\ returned = NoValue
    /\ raised = ""

InitInfo ==
    /\ InitRunIdle
    /\ product_info \in RawProducts
    /\ product_request \in ResolvedUrls(Get(product_info, "post_type"),
                                        Get(product_info, "post_name"))
    /\ product_scraped = NotCalled

GetProductInfo ==
    /\ product_scraped = NotCalled
    /\ product_scraped' = _get_product_info(product_info, product_request)
    /\ UNCHANGED <<product_info, product_request, run_vars>>

NextInfo == GetProductInfo

SpecInfo == InitInfo /\ [][NextInfo]_vars

----------------------------------------------------------------------------
(* Vocabulary of the properties *)

\* the exceptions an iteration of the region loop can end the run with
BodyErrors == {"UnboundLocalError", "IndexError", "KeyError", "JSONDecodeError",
               "TypeError", "ConnectionError"}

\* some event of the log has "admin" in its text
HasAdmin(log) == \E i \in 1..Len(log) : IsAdminEvent(log[i])

\* the body is absent or the empty string
EmptyBody(body) == body = PyNone \/ body = S(<<>>)

\* the body is JSON text of an object without a "data" key
LacksData(body) == body.t = "json" /\ "data" \notin DOMAIN body.obj

\* the products listed under "data" in a body, none for any other body
PayloadOf(body) ==
    IF body.t = "json" /\ "data" \in DOMAIN body.obj /\ body.obj["data"].t = "list"
    THEN body.obj["data"].items
    ELSE <<>>

RECURSIVE ExpectedTags(_)
\* <<region, ID>> of the products of the first k fetched bodies: regions in
\* the order supplied, products in the order of their payload
ExpectedTags(k) ==
    IF k = 0 THEN <<>>
    ELSE ExpectedTags(k - 1) \o
         [i \in 1..Len(PayloadOf(fetched[k])) |->
            <<regions[k], Get(PayloadOf(fetched[k])[i], "ID")>>]

\* <<extracted_region, id>> of the rows of a table, in row order
RowTags(rows) ==
    [i \in 1..Len(rows) |-> <<rows[i]["extracted_region"], rows[i]["id"]>>]

\* the run is past the loop: the concatenation has been attempted
PastLoop == pc = "returned" \/ (pc = "raised" /\ raised \notin BodyErrors)

RECURSIVE ToInt(_)
\* the number a sequence of decimal digits writes
ToInt(chars) ==
    IF chars = <<>> THEN 0
    ELSE 10 * ToInt(SubSeq(chars, 1, Len(chars) - 1))
         + (CHOOSE d \in 0..9 : Digits[d + 1] = chars[Len(chars)])

\* every table the run holds: the per-region ones and the returned one
AllFrames ==
    Range(products_dataframe_list) \cup (IF returned = NoValue THEN {} ELSE {returned})

\* the current iteration appended a table
AppendedNow ==
    pc = "for" /\ region_idx >= 1 /\ products # Unbound /\ ~EmptyBody(products)

----------------------------------------------------------------------------
(* Properties of webscraping_ara (specification Spec) *)

C2Claim ==
    (events # Unbound /\ ~HasAdmin(events.items)) =>
      /\ pc = "raised"
      /\ raised \in BodyErrors
      /\ cdp_requestId = NotSent
      /\ returned = NoValue

\* C5 as stated: a region whose body is JSON without a "data" key raises no
\* error and the run continues.
C5Claim ==
    \A k \in DOMAIN fetched : LacksData(fetched[k]) => pc # "raised"

\* C5 amended: a region whose non-empty body parses as JSON without a "data"
\* key ends the run in a TypeError raised in that region's iteration: no table
\* is appended for it, no later region is processed and no table is returned.
C5Theorem ==
    \A k \in DOMAIN fetched :
      LacksData(fetched[k]) =>
        /\ pc = "raised"
        /\ raised = "TypeError"
        /\ region_idx = k
        /\ k = Len(fetched)
        /\ Len(products_dataframe_list) < k
        /\ returned = NoValue

C5Witness ==
    /\ Len(fetched) = 2
    /\ LacksData(fetched[2])
    /\ products_dataframe_list # <<>>

\* C6: the rows of the returned table are the products of the fetched
\* payloads, regions in the order supplied and products in payload order,
\* nothing dropped, duplicated or reordered, and its index is 0..n-1; each
\* per-region table lists the products of its payload in payload order.
C6Theorem ==
    /\ pc = "returned" =>
         /\ RowTags(returned.rows) = ExpectedTags(Len(fetched))
         /\ returned.index = [i \in 1..Len(returned.rows) |-> i - 1]
    /\ AppendedNow =>
         LET frame == products_dataframe_list[Len(products_dataframe_list)]
         IN  [i \in 1..Len(frame.rows) |-> frame.rows[i]["id"]]
             = [i \in 1..Len(PayloadOf(products)) |-> Get(PayloadOf(products)[i], "ID")]

\* C6 witness: two regions with two products each, the same IDs in both
C6Witness ==
    /\ pc = "returned"
    /\ Len(returned.rows) = 4
    /\ returned.rows[1]["id"] = returned.rows[4]["id"]
    /\ returned.rows[1]["id"] # returned.rows[2]["id"]
    /\ returned.rows[1]["extracted_region"] # returned.rows[4]["extracted_region"]

\* C8: every row carries the region of the iteration that produced it, a
\* member of the supplied list, and the one datetime taken before the loop;
\* its extracted_date and extracted_time spell that datetime's fields.
C8Theorem ==
    /\ \A frame \in AllFrames : \A i \in 1..Len(frame.rows) :
         LET row == frame.rows[i]
             date == row["extracted_date"].s
             time == row["extracted_time"].s
         IN  /\ row["extracted_region"] \in Range(regions)
             /\ row["extracted_datetime"] = now
             /\ Len(date) = 8
             /\ ToInt(SubSeq(date, 1, 4)) = now.year
             /\ ToInt(SubSeq(date, 5, 6)) = now.month
             /\ ToInt(SubSeq(date, 7, 8)) = now.day
             /\ Len(time) = 8
             /\ time[3] = ":" /\ time[6] = ":"
             /\ ToInt(SubSeq(time, 1, 2)) = now.hour
             /\ ToInt(SubSeq(time, 4, 5)) = now.minute
             /\ ToInt(SubSeq(time, 7, 8)) = now.second
    /\ AppendedNow =>
         LET frame == products_dataframe_list[Len(products_dataframe_list)]
         IN  \A i \in 1..Len(frame.rows) :
               frame.rows[i]["extracted_region"] = regions[region_idx]
    /\ pc = "returned" =>
         \A i \in 1..Len(returned.rows) :
           <<returned.rows[i]["extracted_region"], returned.rows[i]["id"]>>
             = ExpectedTags(Len(fetched))[i]

\* C8 witness: a returned table with rows of the national and of a named region
C8Witness ==
    /\ pc = "returned"
    /\ \E i, j \in 1..Len(returned.rows) :
         /\ returned.rows[i]["extracted_region"] = PyNone
         /\ returned.rows[j]["extracted_region"] = S(Norte)

\* C9: the request fetched for a region is the one its own log determines,
\* whatever the regions before it logged: the request of the first "admin"
\* event of the current log, and none when the log has no such event.
C9Claim ==
    events # Unbound =>
      LET own == ScanEvents(events.items, Unbound)
      IN  cdp_requestId =
            IF own = Unbound THEN NotSent
            ELSE Get(events.items[own.n + 1].params, "requestId")

\* C10: a table is returned only if some region appended a per-region table;
\* when the loop is left with none (an empty region list, or every region
\* skipped) the run ends in the error of the concatenation and returns nothing.
C10Theorem ==
    /\ pc = "returned" => products_dataframe_list # <<>>
    /\ (PastLoop /\ products_dataframe_list = <<>>) =>
         /\ pc = "raised"
         /\ raised = "ValueError"
         /\ returned = NoValue
    /\ (pc = "raised" /\ raised = "ValueError") =>
         /\ products_dataframe_list = <<>>
         /\ \A k \in DOMAIN fetched : EmptyBody(fetched[k])
         /\ Len(fetched) = Len(regions)

\* C10 witness: every region of a non-empty list was skipped
C10Witness ==
    /\ pc = "raised"
    /\ raised = "ValueError"
    /\ Len(regions) = 2
    /\ Len(fetched) = 2

----------------------------------------------------------------------------
(* Properties of _get_product_info (specification SpecInfo) *)

\* C3: for a record with a non-empty meta map, each of the ten meta-derived
\* fields is the first element of the list its meta key holds, as a string,
\* and the empty string when the key is absent or holds no list.
C3Claim ==
    LET meta == Get(product_info, "meta")
    IN  (product_scraped # NotCalled /\ Truthy(meta)) =>
          \A f \in MetaFieldNames :
            LET value == Get(meta.d, MetaKeyOf[f])
            IN  IF value.t # "list" THEN product_scraped[f] = S(<<>>)
                ELSE value.items # <<>> =>
                       product_scraped[f] = S(Str(value.items[1]))

\* C4: for post_type "producto", product_name "leche-entera" and the resolved
\* URL https://aratiendas.com/producto/leche-entera/lacteos/ the category
\* stored is the string "lacteos/".
C4Claim ==
    ( /\ product_scraped # NotCalled
      /\ Get(product_info, "post_type") = S(Producto)
      /\ Get(product_info, "post_name") = S(LecheEntera)
      /\ product_request =
           BaseUrl \o Producto \o Slash \o LecheEntera \o Slash \o Lacteos \o Slash )
    => product_scraped["category"] = S(Lacteos \o Slash)

\* C7: for a record without a "meta" key none of the ten meta-derived fields
\* is a key of the result, while the nine direct fields, product_url and
\* category are, the direct ones holding what the record holds.
C7Theorem ==
    (product_scraped # NotCalled /\ "meta" \notin DOMAIN product_info) =>
      /\ MetaFieldNames \cap DOMAIN product_scraped = {}
      /\ DOMAIN product_scraped =
           {"id", "image_url", "post_type", "post_date", "post_modified",
            "post_status", "post_name", "product_name", "post_title",
            "product_url", "category"}
      /\ product_scraped["id"] = Get(product_info, "ID")
      /\ product_scraped["post_type"] = Get(product_info, "post_type")
      /\ product_scraped["product_name"] = Get(product_info, "post_name")
      /\ product_scraped["product_url"].t = "str"
      /\ product_scraped["category"] # PyNone

\* C7 witness: a record with an ID and a name but no meta has been normalized
C7Witness ==
    /\ product_scraped # NotCalled
    /\ "meta" \notin DOMAIN product_info
    /\ "ID" \in DOMAIN product_info
    /\ "post_name" \in DOMAIN product_info

====
